---- MODULE Spec2Model ----
(***************************************************************************)
(* Model of the rentcast-backend property-panel service (src/server.js):   *)
(* the loose value coercion, the field resolver, the sale-comp lookup with *)
(* its two tiers, the valuation functions, the panel orchestrator and the  *)
(* two variants of the rental-comparables endpoint.                        *)
(*                                                                         *)
(* JavaScript values are records [t, n, s]: t is the type tag ("undef",    *)
(* "null", "num", "nan" for a non-finite number, "str"), n the value of a  *)
(* number and s the characters of a string (a tuple of one-character      *)
(* strings).  Numbers are integers; the model's string samples hold no    *)
(* non-zero fraction digits.                                               *)
(***************************************************************************)
EXTENDS Integers, Sequences, FiniteSets, TLC

\* ------------------------------------------------------------------------
\* JavaScript values
\* ------------------------------------------------------------------------
Undef == [t |-> "undef", n |-> 0, s |-> <<>>]
Null == [t |-> "null", n |-> 0, s |-> <<>>]
NaN == [t |-> "nan", n |-> 0, s |-> <<>>]
Num(k) == [t |-> "num", n |-> k, s |-> <<>>]
Str(cs) == [t |-> "str", n |-> 0, s |-> cs]

IsNullish(v) == v.t \in {"undef", "null"}
IsNum(v) == v.t = "num"

\* JavaScript truthiness of a value
Truthy(v) ==
  CASE v.t = "num" -> v.n # 0
    [] v.t = "str" -> v.s # <<>>
    [] OTHER -> FALSE

\* a ?? b
Coalesce(a, b) == IF IsNullish(a) THEN b ELSE a

\* a || b
OrElse(a, b) == IF Truthy(a) THEN a ELSE b

Digits == <<"0", "1", "2", "3", "4", "5", "6", "7", "8", "9">>
IsDigit(c) == \E i \in 1..10 : Digits[i] = c
DigitVal(c) == (CHOOSE i \in 1..10 : Digits[i] = c) - 1
IsSpace(c) == c = " "

RECURSIVE DigitsValue(_)
DigitsValue(cs) ==
  IF cs = <<>> THEN 0
  ELSE 10 * DigitsValue(SubSeq(cs, 1, Len(cs) - 1)) + DigitVal(cs[Len(cs)])

AllDigits(cs) == \A i \in 1..Len(cs) : IsDigit(cs[i])
AllZeros(cs) == \A i \in 1..Len(cs) : cs[i] = "0"

\* index of the first "." of cs, or 0
DotAt(cs) ==
  IF \E i \in 1..Len(cs) : cs[i] = "."
  THEN CHOOSE i \in 1..Len(cs) : cs[i] = "." /\ \A j \in 1..(i - 1) : cs[j] # "."
  ELSE 0

\* Number(cleaned) for a string of digits, "." and "-": an optional leading
\* "-", digits, an optional "." and digits, at least one digit in all; anything
\* else is NaN.
UnsignedNumber(cs) ==
  LET d == DotAt(cs)
      ip == IF d = 0 THEN cs ELSE SubSeq(cs, 1, d - 1)
      fp == IF d = 0 THEN <<>> ELSE SubSeq(cs, d + 1, Len(cs))
  IN IF AllDigits(ip) /\ AllDigits(fp) /\ Len(ip) + Len(fp) > 0 /\ AllZeros(fp)
     THEN Num(DigitsValue(ip))
     ELSE NaN

JsNumberOfCleaned(cs) ==
  IF cs # <<>> /\ cs[1] = "-"
  THEN LET u == UnsignedNumber(Tail(cs))
       IN IF IsNum(u) THEN Num(0 - u.n) ELSE NaN
  ELSE UnsignedNumber(cs)

IsNumericChar(c) == IsDigit(c) \/ c = "." \/ c = "-"

toNumberLoose(v) ==
  CASE IsNullish(v) -> Null
    [] v.t = "num" -> v
    [] v.t = "nan" -> Null
    [] v.t = "str" ->
         LET cleaned == SelectSeq(v.s, IsNumericChar)
         IN IF cleaned = <<>> THEN Null
            ELSE LET k == JsNumberOfCleaned(cleaned)
                 IN IF IsNum(k) THEN k ELSE Null
    [] OTHER -> Null

\* Number(v) for the values the valuation functions receive
JsNumber(v) ==
  CASE v.t = "null" -> Num(0)
    [] v.t = "num" -> v
    [] v.t = "str" ->
         IF v.s = <<>> THEN Num(0)
         ELSE IF \A i \in 1..Len(v.s) : IsNumericChar(v.s[i])
              THEN JsNumberOfCleaned(v.s) ELSE NaN
    [] OTHER -> NaN

\* ------------------------------------------------------------------------
\* Provider records: obj.present is FALSE for null/undefined, obj.f maps the
\* keys the record holds to their values.
\* ------------------------------------------------------------------------
NoObj == [present |-> FALSE, f |-> <<>>]
Obj(fn) == [present |-> TRUE, f |-> fn]

\* obj?.[k]
Get(obj, k) == IF obj.present /\ k \in DOMAIN obj.f THEN obj.f[k] ELSE Undef

RECURSIVE pickFirst(_, _)
pickFirst(obj, keys) ==
  IF keys = <<>> THEN Null
  ELSE LET v == Get(obj, Head(keys))
       IN IF v # Undef /\ v # Null /\ v # Str(<<>>) THEN v
          ELSE pickFirst(obj, Tail(keys))


\* ------------------------------------------------------------------------
\* Strings (tuples of characters)
\* ------------------------------------------------------------------------
LowerCase == <<"a","b","c","d","e","f","g","h","i","j","k","l","m",
               "n","o","p","q","r","s","t","u","v","w","x","y","z">>
UpperCase == <<"A","B","C","D","E","F","G","H","I","J","K","L","M",
               "N","O","P","Q","R","S","T","U","V","W","X","Y","Z">>

UpperChar(c) ==
  IF \E i \in 1..26 : LowerCase[i] = c
  THEN UpperCase[CHOOSE i \in 1..26 : LowerCase[i] = c]
  ELSE c

toUpperCase(cs) == [i \in 1..Len(cs) |-> UpperChar(cs[i])]

RECURSIVE TrimStart(_)
TrimStart(cs) ==
  IF cs # <<>> /\ IsSpace(Head(cs)) THEN TrimStart(Tail(cs)) ELSE cs

RECURSIVE TrimEnd(_)
TrimEnd(cs) ==
  IF cs # <<>> /\ IsSpace(cs[Len(cs)])
  THEN TrimEnd(SubSeq(cs, 1, Len(cs) - 1)) ELSE cs

trim(cs) == TrimEnd(TrimStart(cs))

\* s.split(",")[0]
FirstSegment(cs) ==
  IF \E i \in 1..Len(cs) : cs[i] = ","
  THEN SubSeq(cs, 1, (CHOOSE i \in 1..Len(cs) :
                        cs[i] = "," /\ \A j \in 1..(i - 1) : cs[j] # ",") - 1)
  ELSE cs

CountySuffix == <<" ", "C", "O", "U", "N", "T", "Y">>

\* s.replace(/ County$/i, "")
StripCounty(cs) ==
  IF Len(cs) >= Len(CountySuffix)
     /\ toUpperCase(SubSeq(cs, Len(cs) - Len(CountySuffix) + 1, Len(cs))) = CountySuffix
  THEN SubSeq(cs, 1, Len(cs) - Len(CountySuffix))
  ELSE cs

\* (q || "").trim() of a query parameter (absent or a string)
QueryText(v) == trim(OrElse(v, Str(<<>>)).s)

\* ------------------------------------------------------------------------
\* Arithmetic on JavaScript numbers: exact rationals num/den, den > 0
\* ------------------------------------------------------------------------
Abs(x) == IF x < 0 THEN 0 - x ELSE x

RECURSIVE GCD(_, _)
GCD(a, b) == IF b = 0 THEN a ELSE GCD(b, a % b)

Rat(a, b) ==
  LET sa == IF b < 0 THEN 0 - a ELSE a
      sb == Abs(b)
      g == GCD(Abs(sa), sb)
  IN [num |-> sa \div g, den |-> sb \div g]

RatAdd(x, y) == Rat(x.num * y.den + y.num * x.den, x.den * y.den)

\* Math.round of the rational a/b, b > 0: floor(a/b + 1/2)
MathRound(a, b) == (2 * a + b) \div (2 * b)

\* round2(a/b) in hundredths
round2(a, b) ==
  LET r == Rat(a, b)
  IN 100 * (r.num \div r.den) + MathRound(100 * (r.num % r.den), r.den)

\* x * y, reduced across before multiplying
RatMul(x, y) ==
  LET p == Rat(x.num, y.den)
      q == Rat(y.num, x.den)
  IN Rat(p.num * q.num, p.den * q.den)

RatNeg(x) == [num |-> 0 - x.num, den |-> x.den]

\* Math.pow(b, e) for integers b and e >= 0
RECURSIVE Pow(_, _)
Pow(b, e) == IF e = 0 THEN 1 ELSE b * Pow(b, e - 1)

\* ------------------------------------------------------------------------
\* Sale comps
\* ------------------------------------------------------------------------
SalePriceKeys == <<"salePrice", "lastSalePrice", "transferPrice", "price">>
SaleSqftKeys == <<"buildingArea", "livingArea", "squareFeet", "sqft">>
SaleAddressKeys == <<"address", "formattedAddress", "addressFull", "addressFullUSPS">>

\* ppsf is held in hundredths; soldDate and raw are not modelled
normalizeSaleComp(x) ==
  LET price == Coalesce(toNumberLoose(pickFirst(x, SalePriceKeys)), Null)
      sqft == Coalesce(toNumberLoose(pickFirst(x, SaleSqftKeys)), Null)
      address == Coalesce(pickFirst(x, SaleAddressKeys), Str(<<>>))
  IN [address |-> address,
      price |-> price,
      sqft |-> sqft,
      ppsf |-> IF Truthy(price) /\ Truthy(sqft)
               THEN Num(round2(price.n, sqft.n)) ELSE Null]

\* c.price && c.sqft
HasPriceAndSqft(c) == Truthy(c.price) /\ Truthy(c.sqft)

NormalizedUsable(rows) == 
  SelectSeq([i \in 1..Len(rows) |-> normalizeSaleComp(rows[i])], HasPriceAndSqft)

\* Array.prototype.slice(0, end) for an integer end
SliceTo(xs, end) ==
  LET k == IF end < 0 THEN (IF Len(xs) + end < 0 THEN 0 ELSE Len(xs) + end)
           ELSE (IF end > Len(xs) THEN Len(xs) ELSE end)
  IN SubSeq(xs, 1, k)

sqftDiff(c, s) == Abs(c.sqft.n - s)

\* insert c after every element whose key is <= its own (a stable sort)
RECURSIVE InsertByDiff(_, _, _)
InsertByDiff(sorted, c, s) ==
  IF sorted = <<>> THEN <<c>>
  ELSE IF sqftDiff(Head(sorted), s) <= sqftDiff(c, s)
       THEN <<Head(sorted)>> \o InsertByDiff(Tail(sorted), c, s)
       ELSE <<c>> \o sorted

\* Array.prototype.sort by (a.sqftDiff - b.sqftDiff), which is stable
RECURSIVE SortByDiff(_, _)
SortByDiff(xs, s) ==
  IF xs = <<>> THEN <<>>
  ELSE InsertByDiff(SortByDiff(SubSeq(xs, 1, Len(xs) - 1), s), xs[Len(xs)], s)

\* the fallback tier's ranking of the usable comps
RankFallback(comps, subjectSqft, limit) ==
  LET s == JsNumber(subjectSqft)
  IN IF IsNum(s) /\ s.n > 0
     THEN SliceTo(SortByDiff(comps, s.n), limit)
     ELSE SliceTo(comps, limit)

\* ------------------------------------------------------------------------
\* Valuation
\* ------------------------------------------------------------------------
\* a comp as the valuation functions see it: price and sqft > 0 and finite
PositiveNum(v) == IsNum(v) /\ v.n > 0

RECURSIVE SumPpsf(_)
SumPpsf(cs) ==
  IF cs = <<>> THEN Rat(0, 1)
  ELSE RatAdd(Rat(Head(cs).price.n, Head(cs).sqft.n), SumPpsf(Tail(cs)))

\* round(avgPpsf * sqft), avgPpsf the mean of price/sqft over valid
AvgPpsfTimes(valid, sqft) ==
  LET sum == SumPpsf(valid)
      r == Rat(sum.num * sqft, sum.den * Len(valid))
  IN MathRound(r.num, r.den)

\* AvmValidComp without the test of the price
AvmValidCompSqftOnly(c) == PositiveNum(c.sqft)

AvmValidComp(c) == PositiveNum(c.price) /\ PositiveNum(c.sqft)

AvmCoerce(c) == [price |-> JsNumber(c.price), sqft |-> JsNumber(c.sqft)]

ConfidenceMinComps == 5

computeSimpleAVM(subjectSqft, saleComps, rentEstimateMonthly, capRatePercent) ==
  LET sqft == JsNumber(subjectSqft)
      validComps == SelectSeq([i \in 1..Len(saleComps) |-> AvmCoerce(saleComps[i])],
                              AvmValidComp)
      rent == JsNumber(rentEstimateMonthly)
      cap == JsNumber(capRatePercent)
  IN IF IsNum(sqft) /\ sqft.n > 0 /\ Len(validComps) > 0
     THEN [method |-> "Sale comps avg $/sqft x subject sqft",
           estimatedMarketValue |-> Num(AvgPpsfTimes(validComps, sqft.n)),
           compsUsed |-> Len(validComps),
           confidence |-> IF Len(validComps) >= ConfidenceMinComps
                          THEN "medium" ELSE "low"]
     ELSE IF IsNum(rent) /\ rent.n > 0 /\ IsNum(cap) /\ cap.n > 0
          THEN [method |-> "Rent estimate annualized / cap rate",
                estimatedMarketValue |->
                  Num(LET r == Rat(rent.n * 12 * 100, cap.n)
                      IN MathRound(r.num, r.den)),
                compsUsed |-> 0,
                confidence |-> "low"]
          ELSE [method |-> "Insufficient inputs",
                estimatedMarketValue |-> Null,
                compsUsed |-> 0,
                confidence |-> "none"]

ArvValidComp(c) ==
  Truthy(c.price) /\ Truthy(c.sqft) /\ IsNum(c.price) /\ IsNum(c.sqft)
  /\ c.price.n > 0 /\ c.sqft.n > 0

\* computeARVFromComps without the test of the subject's square footage
computeARVWithoutSqftTest(subjectSqft, saleComps) ==
  LET sqft == JsNumber(subjectSqft)
      valid == SelectSeq(saleComps, ArvValidComp)
  IN IF Len(valid) = 0
     THEN [ok |-> FALSE, arv |-> Null, compsUsed |-> 0,
           reason |-> "no valid sale comps"]
     ELSE [ok |-> TRUE, arv |-> Num(AvgPpsfTimes(valid, IF IsNum(sqft) THEN sqft.n ELSE 0)),
           compsUsed |-> Len(valid), reason |-> ""]

computeARVFromComps(subjectSqft, saleComps) ==
  LET sqft == JsNumber(subjectSqft)
      valid == SelectSeq(saleComps, ArvValidComp)
  IN IF ~IsNum(sqft) \/ sqft.n <= 0
     THEN [ok |-> FALSE, arv |-> Null, compsUsed |-> 0,
           reason |-> "subjectSqft missing"]
     ELSE IF Len(valid) = 0
          THEN [ok |-> FALSE, arv |-> Null, compsUsed |-> 0,
                reason |-> "no valid sale comps"]
          ELSE [ok |-> TRUE, arv |-> Num(AvgPpsfTimes(valid, sqft.n)),
                compsUsed |-> Len(valid), reason |-> ""]

DefaultVacancyPercent == 5
DefaultExpensePercent == 35
DefaultDownPaymentPercent == 20

\* The income, NOI and loan figures of the summary; the debt service, cash
\* flow and ratio outputs (lines 324-339) are not modelled here.
computeInvestmentSummary(purchasePrice, monthlyRent, vacancyPercent, expensePercent, downPaymentPercent) ==
  LET P == JsNumber(purchasePrice)
      R == JsNumber(monthlyRent)
      bad(error) == [ok |-> FALSE, error |-> error, grossAnnual |-> Null,
                     effectiveGrossAnnual |-> Null, noiAnnual |-> Null,
                     loanAmount |-> Null]
  IN IF ~IsNum(P) \/ P.n <= 0 THEN bad("purchasePrice missing/invalid")
     ELSE IF ~IsNum(R) \/ R.n <= 0 THEN bad("monthlyRent missing/invalid")
     ELSE LET grossAnnual == R.n * 12
              effectiveGross == Rat(grossAnnual * (100 - vacancyPercent.n), 100)
              noi == Rat(effectiveGross.num * (100 - expensePercent.n),
                         effectiveGross.den * 100)
              loanAmount == Rat(P.n * (100 - downPaymentPercent.n), 100)
          IN [ok |-> TRUE, error |-> "",
              grossAnnual |-> Num(grossAnnual),
              effectiveGrossAnnual |-> Num(MathRound(effectiveGross.num, effectiveGross.den)),
              noiAnnual |-> Num(MathRound(noi.num, noi.den)),
              loanAmount |-> Num(MathRound(loanAmount.num, loanAmount.den))]

\* monthlyDebt with the straight-line payment at every rate
monthlyDebtStraightLine(loanAmount, interestRatePercent, loanYears) ==
  LET n == loanYears.n * 12
  IN IF loanAmount.num > 0 /\ n > 0 THEN RatMul(loanAmount, Rat(1, n)) ELSE Rat(0, 1)

\* lines 324-332: loanAmount is a rational, the result the monthly payment as
\* a rational.  With monthlyRate = u/d - 1, (1 + monthlyRate)^-n is d^n/u^n.
monthlyDebt(loanAmount, interestRatePercent, loanYears) ==
  LET monthlyRate == Rat(interestRatePercent.n, 1200)
      n == loanYears.n * 12
      u == monthlyRate.num + monthlyRate.den
      d == monthlyRate.den
  IN IF loanAmount.num > 0 /\ monthlyRate.num > 0 /\ n > 0
     THEN RatMul(RatMul(loanAmount, monthlyRate),
                 Rat(Pow(u, n), Pow(u, n) - Pow(d, n)))
     ELSE IF loanAmount.num > 0 /\ n > 0
          THEN RatMul(loanAmount, Rat(1, n))
          ELSE Rat(0, 1)

\* The debt and cash-flow outputs of computeInvestmentSummary (lines 323-339
\* and 362-372) for a purchase price and rent that passed lines 308-309.
computeInvestmentDebt(purchasePrice, monthlyRent, vacancyPercent, expensePercent, downPaymentPercent, interestRatePercent, loanYears) ==
  LET P == JsNumber(purchasePrice)
      R == JsNumber(monthlyRent)
      effectiveGross == Rat(R.n * 12 * (100 - vacancyPercent.n), 100)
      noi == RatMul(effectiveGross, Rat(100 - expensePercent.n, 100))
      loanAmount == Rat(P.n * (100 - downPaymentPercent.n), 100)
      debt == monthlyDebt(loanAmount, interestRatePercent, loanYears)
      annualDebt == RatMul(debt, Rat(12, 1))
      cashFlowAnnual == RatAdd(noi, RatNeg(annualDebt))
      cashInvested == Rat(P.n * downPaymentPercent.n, 100)
      coc == RatMul(RatMul(cashFlowAnnual, Rat(cashInvested.den, cashInvested.num)),
                    Rat(100, 1))
  IN [monthlyPaymentPI |-> Num(MathRound(debt.num, debt.den)),
      annualDebtService |-> Num(MathRound(annualDebt.num, annualDebt.den)),
      cashFlowAnnual |-> Num(MathRound(cashFlowAnnual.num, cashFlowAnnual.den)),
      cashOnCashPercent |-> IF cashInvested.num > 0 THEN Num(round2(coc.num, coc.den))
                            ELSE Null]

\* ------------------------------------------------------------------------
\* Upstream adapters.  outcome is how the HTTP call ended: "ok" (a 2xx
\* answer), "error" (an error status) or "timeout" (no answer); axios
\* rejects on the last two.
\* ------------------------------------------------------------------------
Outcomes == {"ok", "error", "timeout"}

NoGeo == [present |-> FALSE, zip |-> Null, raw |-> NoObj]

\* hit is r.data?.[0]: hit.present is FALSE for an empty result list, and
\* hit.address is the hit's address components.  lat and lon are not modelled.
geocodeToZip(outcome, hit) ==
  IF outcome # "ok" THEN NoGeo
  ELSE IF ~hit.present THEN NoGeo
  ELSE [present |-> TRUE,
        zip |-> OrElse(Get(hit.address, "postcode"), Null),
        raw |-> hit.address]

\* String(zip).trim().slice(0, 5)
Zip5(zip) == LET t == trim(zip.s) IN SubSeq(t, 1, IF Len(t) < 5 THEN Len(t) ELSE 5)

\* /^\d{5}$/.test(zip5)
IsZip5(cs) == Len(cs) = 5 /\ AllDigits(cs)

\* whether fetchCensusByZip reaches its HTTP call
CensusCalls(zip) == Truthy(zip) /\ IsZip5(Zip5(zip))

NoDemographics == [present |-> FALSE, zip |-> <<>>]

\* nRows is the length of the table the provider answered with; the
\* statistics computed from the value row are not modelled.
fetchCensusByZip(zip, outcome, nRows) ==
  IF ~CensusCalls(zip) THEN NoDemographics
  ELSE IF outcome # "ok" THEN NoDemographics
  ELSE IF nRows < 2 THEN NoDemographics
  ELSE [present |-> TRUE, zip |-> Zip5(zip)]

\* ------------------------------------------------------------------------
\* Warnings of the panel
\* ------------------------------------------------------------------------
W_Geocode == "Geocoding failed (Nominatim). Check NOMINATIM_USER_AGENT + address format."
W_DerivedAddressLine1 == "addressLine1 was not provided; derived from fullAddress."
W_DerivedCounty == "county was not provided; derived from geocoding result."
W_RentcastKey == "RENTCAST_API_KEY missing. RentCast calls skipped."
W_RentcastNone == "RentCast returned no property for this address."
W_RentcastFailed == "RentCast /v1/properties failed: <status> <details>"
W_RentcastSkipped == "No fullAddress provided, so RentCast lookup skipped."
W_RealieKey == "REALIE_API_KEY missing. Realie calls skipped."
W_RealieNone == "Realie returned no property record for this address."
W_RealieFailed == "Realie address lookup failed: <status> <details>"
W_RealieSkipped == "state + addressLine1 missing; Realie lookup skipped."
W_SoldComps == "Sold comps unavailable (Realie requires BOTH state + county)."

\* the upstream endpoints
E_Geocoder == "nominatim/search"
E_Census == "census/acs5"
E_Rentcast == "rentcast/v1/properties"
E_Realie == "realie/public/property/address"
E_Premium == "realie/public/premium/comparables"
E_Search == "realie/public/property/search"
E_RentalComps == "rentcast/v1/avm/rent/long-term"

\* ------------------------------------------------------------------------
\* The panel's provider lookups (the try blocks of the handler).  Each
\* returns what the handler holds afterwards: threw is TRUE when an
\* exception leaves the block.
\* ------------------------------------------------------------------------
\* RentcastLookup without its catch block: a failed call throws
RentcastLookupUncaught(outcome, data) ==
  [threw |-> outcome # "ok", data |-> data,
   prop |-> IF data.kind # "null" /\ Len(data.items) > 0 THEN data.items[1] ELSE NoObj,
   warnings |-> <<>>]

\* data is the body of the 2xx answer: [kind |-> "null" | "array" | "object",
\* items |-> the records of the array, or the one record]
RentcastLookup(outcome, data) ==
  IF outcome = "ok"
  THEN LET prop == IF data.kind # "null" /\ Len(data.items) > 0
                   THEN data.items[1] ELSE NoObj
       IN [threw |-> FALSE, data |-> data, prop |-> prop,
           warnings |-> IF ~prop.present THEN <<W_RentcastNone>> ELSE <<>>]
  ELSE [threw |-> FALSE, data |-> [kind |-> "null", items |-> <<>>],
        prop |-> NoObj, warnings |-> <<W_RentcastFailed>>]

\* data is the body of the 2xx answer: [kind |-> "null" | "wrapped" | "bare",
\* rec |-> the record]; "wrapped" is {property: rec}
RealieLookup(outcome, data) ==
  IF outcome = "ok"
  THEN LET realie == IF data.kind = "null" THEN NoObj ELSE data.rec
       IN [threw |-> FALSE, realie |-> realie,
           warnings |-> IF ~realie.present THEN <<W_RealieNone>> ELSE <<>>]
  ELSE [threw |-> FALSE, realie |-> NoObj, warnings |-> <<W_RealieFailed>>]

NoComps == [ok |-> FALSE, comps |-> <<>>, source |-> "none"]

\* PremiumTier without its early return
PremiumTierAlwaysFallsBack(outcome, rows) == [next |-> "fallback", resp |-> NoComps]

\* PremiumTier with the premium call made again after it gave nothing usable
PremiumTierRetried(outcome, rows) ==
  IF outcome = "ok" /\ Len(NormalizedUsable(rows)) > 0
  THEN [next |-> "return",
        resp |-> [ok |-> TRUE, comps |-> NormalizedUsable(rows),
                  source |-> "realie_premium_comparables"]]
  ELSE [next |-> "premium", resp |-> NoComps]

\* fetchRealieSaleComps, tier 1: "return" with the result, or "fallback"
PremiumTier(outcome, rows) ==
  IF outcome = "ok" /\ Len(NormalizedUsable(rows)) > 0
  THEN [next |-> "return",
        resp |-> [ok |-> TRUE, comps |-> NormalizedUsable(rows),
                  source |-> "realie_premium_comparables"]]
  ELSE [next |-> "fallback", resp |-> NoComps]

\* fetchRealieSaleComps, tier 2
FallbackTier(outcome, rows, subjectSqft, limit) ==
  IF outcome = "ok"
  THEN [ok |-> TRUE,
        comps |-> RankFallback(NormalizedUsable(rows), subjectSqft, limit),
        source |-> "realie_county_search_fallback"]
  ELSE NoComps

SubjectSqftRentcastKeys == <<"squareFeet", "sqft", "livingArea", "area", "sizeSqft">>
SubjectSqftRealieKeys == <<"buildingArea", "livingArea", "squareFeet", "sqft">>
RentKeys == <<"rentEstimate", "rent", "estimatedRent", "rentEstimateMonthly">>
PriceRentcastKeys == <<"lastSalePrice", "salePrice", "price">>
PriceRealieKeys == <<"transferPrice", "lastSalePrice", "marketValue", "totalMarketValue">>

ResolveSubjectSqft(rentcastProp, realie) ==
  Coalesce(toNumberLoose(pickFirst(rentcastProp, SubjectSqftRentcastKeys)),
    Coalesce(toNumberLoose(pickFirst(realie, SubjectSqftRealieKeys)), Null))

\* ResolveRentEstimate with the secondary record tried after the primary one
ResolveRentEstimateBothProviders(rentcastProp, realie) ==
  Coalesce(toNumberLoose(pickFirst(rentcastProp, RentKeys)),
    Coalesce(toNumberLoose(pickFirst(realie, RentKeys)), Null))

ResolveRentEstimate(rentcastProp, realie) ==
  Coalesce(toNumberLoose(pickFirst(rentcastProp, RentKeys)), Null)

\* ResolveFallbackPrice with the caller's price tried last
ResolveFallbackPriceProvidersFirst(purchasePrice, rentcastProp, realie) ==
  Coalesce(toNumberLoose(pickFirst(rentcastProp, PriceRentcastKeys)),
    Coalesce(toNumberLoose(pickFirst(realie, PriceRealieKeys)),
      Coalesce(purchasePrice, Null)))

ResolveFallbackPrice(purchasePrice, rentcastProp, realie) ==
  Coalesce(purchasePrice,
    Coalesce(toNumberLoose(pickFirst(rentcastProp, PriceRentcastKeys)),
      Coalesce(toNumberLoose(pickFirst(realie, PriceRealieKeys)), Null)))

DefaultCompsLimit == 10
MaxCompsLimit == 20

Min(a, b) == IF a < b THEN a ELSE b

CompsLimit(saleCompLimit) ==
  Min(Coalesce(toNumberLoose(saleCompLimit), Num(DefaultCompsLimit)).n, MaxCompsLimit)

DefaultCapRate == 8

\* ------------------------------------------------------------------------
\* Bounded inputs: the requests, the configured keys and what the upstream
\* providers hold
\* ------------------------------------------------------------------------
MaxRows == 3

T_FullAddress == <<"1", " ", "M", ",", "D">>
T_NoStreet == <<",", "D">>
T_State == <<"o", "h">>
T_Line1 == <<"1", " ", "M">>
T_City == <<"D">>
T_County == <<"K">>

Rec(fn) == Obj(fn)

RowA == Rec("address" :> Str(<<"a">>) @@ "salePrice" :> Num(200) @@ "buildingArea" :> Num(10))
RowB == Rec("address" :> Str(<<"b">>) @@ "lastSalePrice" :> Str(<<"$", "3", "0", "0">>)
            @@ "livingArea" :> Str(<<"1", "2">>))
RowC == Rec("address" :> Str(<<"c">>) @@ "price" :> Num(260) @@ "sqft" :> Num(8))
RowE == Rec("address" :> Str(<<"e">>) @@ "buildingArea" :> Num(10))
RowN == Rec("address" :> Str(<<"n">>) @@ "salePrice" :> Num(0 - 5) @@ "sqft" :> Num(11))
RowZ == Rec("address" :> Str(<<"z">>) @@ "salePrice" :> Num(0) @@ "sqft" :> Num(9))

SearchRowSamples == {RowA, RowB, RowC, RowE}
PremiumRowSamples == {RowA, RowE, RowN, RowZ}

SeqsUpTo(S, n) == UNION {[1..k -> S] : k \in 0..n}

RC_Full == Rec("squareFeet" :> Num(10) @@ "rentEstimate" :> Num(20) @@ "lastSalePrice" :> Num(2000))
RC_Str == Rec("sqft" :> Str(<<"1", "0">>) @@ "rent" :> Str(<<"$", "2", "5">>)
              @@ "salePrice" :> Str(<<"$", "2", ",", "5", "0", "0">>))
RC_Bad == Rec("squareFeet" :> Str(<<"n", "/", "a">>) @@ "sqft" :> Num(10)
              @@ "rentEstimate" :> Str(<<"a", "b", "c">>) @@ "estimatedRent" :> Num(20)
              @@ "lastSalePrice" :> Str(<<>>) @@ "price" :> Str(<<"t", "b", "d">>))
RC_Empty == Rec(<<>>)

RentcastBody(kind, items) == [kind |-> kind, items |-> items]

RentcastBodies ==
  {RentcastBody("array", <<RC_Full>>), RentcastBody("object", <<RC_Str>>),
   RentcastBody("array", <<RC_Bad>>), RentcastBody("object", <<RC_Empty>>),
   RentcastBody("array", <<>>), RentcastBody("null", <<>>)}

RL_Full == Rec("buildingArea" :> Num(12) @@ "transferPrice" :> Num(1800)
               @@ "rentEstimate" :> Num(30))
RL_Mkt == Rec("sqft" :> Str(<<"9">>) @@ "marketValue" :> Str(<<"$", "1", ",", "7", "0", "0">>))
RL_Empty == Rec(<<>>)

RealieBody(kind, rec) == [kind |-> kind, rec |-> rec]

RealieBodies ==
  {RealieBody("wrapped", RL_Full), RealieBody("bare", RL_Mkt),
   RealieBody("bare", RL_Empty), RealieBody("null", NoObj)}

NoHit == [present |-> FALSE, address |-> NoObj]
Hit(address) == [present |-> TRUE, address |-> address]

GeoHits ==
  {NoHit,
   Hit(Rec("postcode" :> Str(<<"4", "4", "1", "2", "8", "-", "1">>)
           @@ "county" :> Str(<<"L", " ", "C", "o", "u", "n", "t", "y">>)
           @@ "city" :> Str(<<"D">>))),
   Hit(Rec("county" :> Str(<<"L">>) @@ "village" :> Str(<<"V">>))),
   Hit(Rec("postcode" :> Str(<<"A", "B", "C">>) @@ "town" :> Str(<<"T">>)))}

Opt(cs) == {Undef, Str(cs)}

Query(fullAddress, address, state, addressLine1, city, county, purchasePrice, saleCompLimit, cap) ==
  [fullAddress |-> fullAddress, address |-> address, state |-> state,
   addressLine1 |-> addressLine1, city |-> city, county |-> county,
   purchasePrice |-> purchasePrice, saleCompLimit |-> saleCompLimit, cap |-> cap,
   vacancyPercent |-> Undef, expensePercent |-> Undef,
   downPaymentPercent |-> Undef, limit |-> Undef]

Env(rentcastKey, realieKey) == [RENTCAST_API_KEY |-> rentcastKey, REALIE_API_KEY |-> realieKey]

Envs == {Env(a, b) : a \in BOOLEAN, b \in BOOLEAN}

World(geoHit, rentcastBody, realieBody, premiumRows, searchRows) ==
  [geoHit |-> geoHit, rentcastBody |-> rentcastBody, realieBody |-> realieBody,
   premiumRows |-> premiumRows, searchRows |-> searchRows, rentalRows |-> <<>>]

Scenario(q, e, w) == [query |-> q, env |-> e, world |-> w]

\* requests that differ in the address fields, against every geocoder answer
AddressScenarios ==
  {Scenario(Query(fa[1], fa[2], st, l1, ci, co, Undef, Undef, Undef), e,
            World(g, RentcastBody("array", <<RC_Full>>), RealieBody("wrapped", RL_Full),
                  <<>>, <<RowA, RowB>>)) :
     fa \in {<<Undef, Undef>>, <<Str(T_FullAddress), Undef>>, <<Str(T_NoStreet), Undef>>,
             <<Undef, Str(T_FullAddress)>>, <<Str(<<" ">>), Undef>>},
     st \in Opt(T_State), l1 \in Opt(T_Line1), ci \in Opt(T_City), co \in Opt(T_County),
     e \in Envs, g \in GeoHits}

PurchasePrices == {Undef, Str(<<"1", "5", "0", "0">>), Str(<<"a", "b", "c">>), Str(<<"0">>)}
Caps == {Undef, Str(<<"0">>), Str(<<"5">>)}

\* requests for one address that differ in the caller's price and cap rate,
\* against every provider record
SubjectScenarios ==
  {Scenario(Query(Str(T_FullAddress), Undef, Str(T_State), Undef, Undef, Undef, pp, Undef, cap),
            e, World(NoHit, rb, lb, <<>>, <<>>)) :
     pp \in PurchasePrices, cap \in Caps, e \in Envs,
     rb \in RentcastBodies, lb \in RealieBodies}

SaleCompLimits == {Undef, Str(<<"1">>), Str(<<"2">>), Str(<<"-", "1">>)}

\* requests by state, street and county that differ in the comp limit,
\* against every list of sale records
CompsScenarios ==
  {Scenario(Query(Undef, Undef, Str(T_State), Str(T_Line1), Undef, Str(T_County),
                  Undef, lim, Undef),
            Env(TRUE, TRUE),
            World(NoHit, RentcastBody("null", <<>>), RealieBody("wrapped", RL_Full),
                  pr, sr)) :
     lim \in SaleCompLimits,
     pr \in SeqsUpTo(PremiumRowSamples, 1),
     sr \in SeqsUpTo(SearchRowSamples, MaxRows)}

\* the same requests against every list of premium records
PremiumScenarios ==
  {Scenario(Query(Undef, Undef, Str(T_State), Str(T_Line1), Undef, Str(T_County),
                  Undef, lim, Undef),
            Env(TRUE, TRUE),
            World(NoHit, RentcastBody("null", <<>>), RealieBody("wrapped", RL_Full),
                  pr, sr)) :
     lim \in SaleCompLimits,
     pr \in SeqsUpTo(PremiumRowSamples, MaxRows),
     sr \in {<<>>, <<RowA>>}}

Scenarios ==
  AddressScenarios \cup SubjectScenarios \cup CompsScenarios \cup PremiumScenarios

NoQuery == Query(Undef, Undef, Undef, Undef, Undef, Undef, Undef, Undef, Undef)
NoWorld == World(NoHit, RentcastBody("null", <<>>), RealieBody("null", NoObj), <<>>, <<>>)

RentalA == Rec("formattedAddress" :> Str(<<"a">>) @@ "listedRent" :> Num(20))
RentalB == Rec("address" :> Str(<<"b">>) @@ "price" :> Str(<<"$", "2", "5">>))

RentalLimits == {Undef, Str(<<"5">>), Str(<<"3", "0">>), Str(<<"x">>)}

\* rental-comps requests, against every answer of the provider
RentalScenarios ==
  {Scenario([NoQuery EXCEPT !.address = a, !.limit = lim], e,
            [NoWorld EXCEPT !.rentalRows = rows]) :
     a \in Opt(T_FullAddress), lim \in RentalLimits, e \in Envs,
     rows \in {<<>>, <<RentalA>>, <<RentalA, RentalB>>}}

\* the error statuses the rental-comps provider answers with
ErrorStatuses == {400, 401, 404, 422, 429, 500}

\* ------------------------------------------------------------------------
\* Direct calls of computeSimpleAVM
\* ------------------------------------------------------------------------
MaxAvmComps == 5

Comp(price, sqft) == [price |-> price, sqft |-> sqft]

AvmCompSamples == {Comp(Num(6), Num(2)), Comp(Num(5), Num(4)), Comp(Num(0), Num(2)),
                   Comp(Null, Num(4))}
AvmSqfts == {Null, Num(0), Num(3), Num(0 - 3), NaN}
AvmRents == {Null, Num(0), Num(20), Num(0 - 20)}
AvmCaps == {Num(8), Num(7), Num(0), NaN}

\* the worked example of the valuation: two comps at 100 per sqft
ExampleComps == <<Comp(Num(100000), Num(1000)), Comp(Num(120000), Num(1200))>>

AvmArgs(subjectSqft, saleComps, rentEstimateMonthly, capRatePercent) ==
  [fn |-> "computeSimpleAVM", subjectSqft |-> subjectSqft, saleComps |-> saleComps,
   rentEstimateMonthly |-> rentEstimateMonthly, capRatePercent |-> capRatePercent]

AvmCalls ==
  {AvmArgs(sq, cs, r, c) :
     sq \in AvmSqfts, cs \in SeqsUpTo(AvmCompSamples, 2), r \in AvmRents, c \in AvmCaps}
  \cup
  {AvmArgs(sq, cs, Num(20), Num(8)) :
     sq \in {Null, Num(3)}, cs \in SeqsUpTo(AvmCompSamples, MaxAvmComps)}
  \cup {AvmArgs(Num(1000), ExampleComps, r, Num(8)) : r \in {Null, Num(20)}}

\* ------------------------------------------------------------------------
\* Direct calls of computeInvestmentSummary
\* ------------------------------------------------------------------------
InvestArgs(purchasePrice, monthlyRent, vacancyPercent, expensePercent, downPaymentPercent, interestRatePercent, loanYears) ==
  [fn |-> "computeInvestmentSummary", purchasePrice |-> purchasePrice,
   monthlyRent |-> monthlyRent, vacancyPercent |-> vacancyPercent,
   expensePercent |-> expensePercent, downPaymentPercent |-> downPaymentPercent,
   interestRatePercent |-> interestRatePercent, loanYears |-> loanYears]

InvestPrices == {Undef, Null, NaN, Num(0), Num(0 - 100), Num(100), Str(<<"1", "0", "0">>)}
InvestRents == {Undef, Null, Num(0), Num(0 - 50), Num(50), Str(<<"x">>)}
InvestDownPayments == {Num(20), Num(0), Num(100), Num(120), Num(0 - 20)}
\* annual rates in percent: monthly rates of 0, 1/2 and 1, and a negative one
InvestRates == {Num(0), Num(600), Num(1200), Num(0 - 600)}
InvestYears == {Num(1), Num(0), Num(0 - 1)}

InvestCalls ==
  {InvestArgs(P, R, v, Undef, Undef, Num(0), Num(1)) :
     P \in InvestPrices, R \in InvestRents, v \in {Undef, Num(10)}}
  \cup
  {InvestArgs(Num(100), Num(50), v, Num(35), dp, rate, years) :
     v \in {Num(5), Num(0)}, dp \in InvestDownPayments, rate \in InvestRates,
     years \in InvestYears}
  \cup
  {InvestArgs(Num(200000), Num(2000), Num(5), Num(35), Num(20), Num(0), years) :
     years \in {Num(1), Num(30)}}

\* ------------------------------------------------------------------------
\* State
\* ------------------------------------------------------------------------
VARIABLES
  query,     \* req.query of the request being served
  env,       \* the configured provider keys
  world,     \* what each upstream provider answers when its call succeeds
  pc,        \* where the handler stands
  loc,       \* the handler's local variables
  warnings,  \* the handler's warnings array
  calls,     \* the upstream endpoints called so far, in order
  failed,    \* the endpoints whose call ended in an error status or a timeout
  response,  \* the response sent, status 0 until then
  route,     \* the route handler serving the request
  providerStatus, \* the HTTP status the rental-comps provider answered with, 0 if none
  args,      \* the arguments of a direct call of a valuation function
  result     \* what that call returned

vars == <<query, env, world, pc, loc, warnings, calls, failed, response,
          route, providerStatus, args, result>>

request == <<route, query, env, world>>
aside == <<providerStatus, args, result>>

R_Panel == "GET /api/property-panel"
R_NearbyRentals == "GET /api/nearby-rentals"
R_NearbyRentals2 == "GET /api/nearby-rentals (second server file)"

NoArgs == [fn |-> "none"]
NoResult == [fn |-> "none"]

NoResponse == [status |-> 0, ok |-> FALSE]

Loc0 ==
  [fullAddress |-> <<>>, capRatePercent |-> Null, state |-> <<>>,
   addressLine1 |-> <<>>, city |-> <<>>, county |-> <<>>,
   purchasePrice |-> Null, vacancyPercent |-> Null, expensePercent |-> Null,
   downPaymentPercent |-> Null,
   geo |-> NoGeo, demographics |-> NoDemographics,
   rentcastData |-> RentcastBody("null", <<>>), rentcastProp |-> NoObj,
   realie |-> NoObj, subjectSqft |-> Null, rentEstimateMonthly |-> Null,
   compsLimit |-> 0, saleCompsResp |-> NoComps]

Idle ==
  /\ loc = Loc0
  /\ warnings = <<>>
  /\ calls = <<>>
  /\ failed = {}
  /\ response = NoResponse
  /\ providerStatus = 0
  /\ args = NoArgs
  /\ result = NoResult

InitPanel ==
  /\ \E sc \in Scenarios : query = sc.query /\ env = sc.env /\ world = sc.world
  /\ route = R_Panel
  /\ pc = "start"
  /\ Idle


InitRentals ==
  /\ \E sc \in RentalScenarios : query = sc.query /\ env = sc.env /\ world = sc.world
  /\ route \in {R_NearbyRentals, R_NearbyRentals2}
  /\ pc = "start"
  /\ Idle

InitAVM ==
  /\ query = NoQuery /\ env = Env(FALSE, FALSE) /\ world = NoWorld
  /\ route = "none"
  /\ pc = "call"
  /\ loc = Loc0
  /\ warnings = <<>>
  /\ calls = <<>>
  /\ failed = {}
  /\ response = NoResponse
  /\ providerStatus = 0
  /\ args \in AvmCalls \cup InvestCalls
  /\ result = NoResult

\* the outer catch of the panel handler (lines 793-796)
Fail500 ==
  /\ response' = [status |-> 500, ok |-> FALSE]
  /\ pc' = "done"

\* an axios call to endpoint e that ended with outcome o
Called(e, o) ==
  /\ calls' = Append(calls, e)
  /\ failed' = IF o = "ok" THEN failed ELSE failed \cup {e}

NotCalled == UNCHANGED <<calls, failed>>

\* InputValid with the state and the street line taken one for the other
InputValidAnyField(fullAddress, state, addressLine1) ==
  ~(fullAddress = <<>> /\ ~(state # <<>> \/ addressLine1 # <<>>))

\* line 622
InputValid(fullAddress, state, addressLine1) ==
  ~(fullAddress = <<>> /\ ~(state # <<>> /\ addressLine1 # <<>>))

\* lines 607-627
Validate ==
  /\ route = R_Panel
  /\ pc = "start"
  /\ LET fullAddress == QueryText(OrElse(query.fullAddress, query.address))
         state == toUpperCase(QueryText(query.state))
         addressLine1 == QueryText(query.addressLine1)
     IN /\ loc' = [loc EXCEPT
                 !.fullAddress = fullAddress,
                 !.capRatePercent = JsNumber(OrElse(query.cap, Num(DefaultCapRate))),
                 !.state = state,
                 !.addressLine1 = addressLine1,
                 !.city = QueryText(query.city),
                 !.county = QueryText(query.county),
                 !.purchasePrice = toNumberLoose(query.purchasePrice),
                 !.vacancyPercent = Coalesce(toNumberLoose(query.vacancyPercent),
                                             Num(DefaultVacancyPercent)),
                 !.expensePercent = Coalesce(toNumberLoose(query.expensePercent),
                                             Num(DefaultExpensePercent)),
                 !.downPaymentPercent = Coalesce(toNumberLoose(query.downPaymentPercent),
                                                 Num(DefaultDownPaymentPercent))]
        /\ IF ~InputValid(fullAddress, state, addressLine1)
           THEN /\ response' = [status |-> 400, ok |-> FALSE]
                /\ pc' = "done"
           ELSE /\ pc' = "geocode"
                /\ UNCHANGED response
  /\ UNCHANGED <<request, aside, warnings, calls, failed>>

\* lines 633-636
Geocode ==
  /\ pc = "geocode"
  /\ IF loc.fullAddress # <<>>
     THEN \E o \in Outcomes :
            LET geo == geocodeToZip(o, world.geoHit)
            IN /\ Called(E_Geocoder, o)
               /\ loc' = [loc EXCEPT !.geo = geo]
               /\ warnings' = IF ~geo.present THEN Append(warnings, W_Geocode)
                              ELSE warnings
     ELSE /\ NotCalled
          /\ UNCHANGED <<loc, warnings>>
  /\ pc' = "census"
  /\ UNCHANGED <<request, aside, response>>

\* line 639
Census ==
  /\ pc = "census"
  /\ LET zip == loc.geo.zip
     IN IF CensusCalls(zip)
        THEN \E o \in Outcomes, nRows \in {1, 2} :
               /\ Called(E_Census, o)
               /\ loc' = [loc EXCEPT !.demographics = fetchCensusByZip(zip, o, nRows)]
        ELSE /\ NotCalled
             /\ loc' = [loc EXCEPT !.demographics =
                          IF Truthy(zip) THEN fetchCensusByZip(zip, "ok", 0)
                          ELSE NoDemographics]
  /\ pc' = "derive"
  /\ UNCHANGED <<request, aside, warnings, response>>

\* lines 641-655
Derive ==
  /\ pc = "derive"
  /\ LET derivedLine1 == trim(FirstSegment(loc.fullAddress))
         takeLine1 == loc.addressLine1 = <<>> /\ loc.fullAddress # <<>>
         addressLine1 == IF takeLine1 THEN derivedLine1 ELSE loc.addressLine1
         rawCounty == Get(loc.geo.raw, "county")
         takeCounty == loc.county = <<>> /\ Truthy(rawCounty)
         county == IF takeCounty THEN trim(StripCounty(rawCounty.s)) ELSE loc.county
         city == IF loc.city = <<>>
                 THEN OrElse(Get(loc.geo.raw, "city"),
                        OrElse(Get(loc.geo.raw, "town"),
                          OrElse(Get(loc.geo.raw, "village"), Str(loc.city)))).s
                 ELSE loc.city
     IN /\ loc' = [loc EXCEPT !.addressLine1 = addressLine1, !.county = county,
                              !.city = city]
        /\ warnings' = warnings
             \o (IF takeLine1 /\ addressLine1 # <<>> THEN <<W_DerivedAddressLine1>> ELSE <<>>)
             \o (IF takeCounty /\ county # <<>> THEN <<W_DerivedCounty>> ELSE <<>>)
  /\ pc' = "rentcast"
  /\ UNCHANGED <<request, aside, calls, failed, response>>

\* lines 657-680
RentCast ==
  /\ pc = "rentcast"
  /\ IF ~env.RENTCAST_API_KEY
     THEN /\ warnings' = Append(warnings, W_RentcastKey)
          /\ pc' = "realie"
          /\ NotCalled
          /\ UNCHANGED <<loc, response>>
     ELSE IF loc.fullAddress # <<>>
     THEN \E o \in Outcomes :
            LET r == RentcastLookup(o, world.rentcastBody)
            IN /\ Called(E_Rentcast, o)
               /\ IF r.threw
                  THEN Fail500 /\ UNCHANGED <<loc, warnings>>
                  ELSE /\ loc' = [loc EXCEPT !.rentcastData = r.data,
                                             !.rentcastProp = r.prop]
                       /\ warnings' = warnings \o r.warnings
                       /\ pc' = "realie"
                       /\ UNCHANGED response
     ELSE /\ warnings' = Append(warnings, W_RentcastSkipped)
          /\ pc' = "realie"
          /\ NotCalled
          /\ UNCHANGED <<loc, response>>
  /\ UNCHANGED <<request, aside>>

\* lines 682-706
Realie ==
  /\ pc = "realie"
  /\ IF ~env.REALIE_API_KEY
     THEN /\ warnings' = Append(warnings, W_RealieKey)
          /\ pc' = "subject"
          /\ NotCalled
          /\ UNCHANGED <<loc, response>>
     ELSE IF loc.state # <<>> /\ loc.addressLine1 # <<>>
     THEN \E o \in Outcomes :
            LET r == RealieLookup(o, world.realieBody)
            IN /\ Called(E_Realie, o)
               /\ IF r.threw
                  THEN Fail500 /\ UNCHANGED <<loc, warnings>>
                  ELSE /\ loc' = [loc EXCEPT !.realie = r.realie]
                       /\ warnings' = warnings \o r.warnings
                       /\ pc' = "subject"
                       /\ UNCHANGED response
     ELSE /\ warnings' = Append(warnings, W_RealieSkipped)
          /\ pc' = "subject"
          /\ NotCalled
          /\ UNCHANGED <<loc, response>>
  /\ UNCHANGED <<request, aside>>

\* CompsLookupEnabled without the test of the key
CompsLookupWithoutKey(state, county) == state # <<>> /\ county # <<>>

\* whether fetchRealieSaleComps goes on to its calls (line 516)
CompsLookupEnabled(state, county) == env.REALIE_API_KEY /\ state # <<>> /\ county # <<>>

\* lines 708-721 and the guard of fetchRealieSaleComps (line 516)
Subject ==
  /\ pc = "subject"
  /\ loc' = [loc EXCEPT
       !.subjectSqft = ResolveSubjectSqft(loc.rentcastProp, loc.realie),
       !.rentEstimateMonthly = ResolveRentEstimate(loc.rentcastProp, loc.realie),
       !.compsLimit = CompsLimit(query.saleCompLimit),
       !.saleCompsResp = NoComps]
  /\ pc' = IF CompsLookupEnabled(loc.state, loc.county) THEN "premium" ELSE "assemble"
  /\ UNCHANGED <<request, aside, warnings, calls, failed, response>>

\* fetchRealieSaleComps, lines 518-537
PremiumComps ==
  /\ pc = "premium"
  /\ \E o \in Outcomes :
       LET r == PremiumTier(o, world.premiumRows)
       IN /\ Called(E_Premium, o)
          /\ loc' = [loc EXCEPT !.saleCompsResp = r.resp]
          /\ pc' = IF r.next = "return" THEN "assemble" ELSE r.next
  /\ UNCHANGED <<request, aside, warnings, response>>

\* fetchRealieSaleComps, lines 539-569
FallbackComps ==
  /\ pc = "fallback"
  /\ \E o \in Outcomes :
       /\ Called(E_Search, o)
       /\ loc' = [loc EXCEPT !.saleCompsResp =
                    FallbackTier(o, world.searchRows, loc.subjectSqft, loc.compsLimit)]
  /\ pc' = "assemble"
  /\ UNCHANGED <<request, aside, warnings, response>>

PriceAndSqft(c) == [price |-> c.price, sqft |-> c.sqft]

\* lines 744-760
PanelInvestment(fallbackPrice, rentEstimateMonthly) ==
  IF Truthy(fallbackPrice) /\ Truthy(rentEstimateMonthly)
  THEN computeInvestmentSummary(fallbackPrice, rentEstimateMonthly, loc.vacancyPercent,
                                loc.expensePercent, loc.downPaymentPercent)
       @@ [reason |-> "", purchasePrice |-> fallbackPrice,
           monthlyRent |-> rentEstimateMonthly]
  ELSE [ok |-> FALSE, error |-> "", grossAnnual |-> Null, effectiveGrossAnnual |-> Null,
        noiAnnual |-> Null, loanAmount |-> Null,
        reason |-> "Need purchase price + monthly rent estimate.",
        purchasePrice |-> Coalesce(fallbackPrice, Null),
        monthlyRent |-> Coalesce(rentEstimateMonthly, Null)]

\* lines 722-792
Assemble ==
  /\ pc = "assemble"
  /\ LET resp == loc.saleCompsResp
         saleComps == IF resp.ok THEN resp.comps ELSE <<>>
         ws == IF ~resp.ok THEN Append(warnings, W_SoldComps) ELSE warnings
         fallbackPrice ==
           ResolveFallbackPrice(loc.purchasePrice, loc.rentcastProp, loc.realie)
     IN /\ warnings' = ws
        /\ response' =
             [status |-> 200, ok |-> TRUE, warnings |-> ws,
              inputs |-> [fullAddress |-> loc.fullAddress, state |-> loc.state,
                          addressLine1 |-> loc.addressLine1, city |-> loc.city,
                          county |-> loc.county],
              geocoding |-> loc.geo,
              demographics |-> loc.demographics,
              rentcast |-> loc.rentcastData,
              realie |-> loc.realie,
              saleComps |-> [ok |-> resp.ok, source |-> resp.source,
                             count |-> Len(saleComps), comps |-> saleComps],
              subject |-> [sqft |-> loc.subjectSqft,
                           rentEstimateMonthly |-> loc.rentEstimateMonthly,
                           purchasePriceUsed |-> fallbackPrice],
              arv |-> computeARVFromComps(loc.subjectSqft, saleComps),
              avm |-> computeSimpleAVM(loc.subjectSqft, [i \in 1..Len(saleComps) |-> PriceAndSqft(saleComps[i])],
                                       loc.rentEstimateMonthly, loc.capRatePercent),
              investment |-> PanelInvestment(fallbackPrice, loc.rentEstimateMonthly)]
  /\ pc' = "done"
  /\ UNCHANGED <<request, aside, loc, calls, failed>>

DefaultRentalLimit == 10
MaxRentalLimit == 25

\* Math.min(Number(req.query.limit ?? 10), 25)
RentalLimit(v) ==
  LET k == JsNumber(Coalesce(v, Num(DefaultRentalLimit)))
  IN IF IsNum(k) THEN Num(Min(k.n, MaxRentalLimit)) ELSE NaN

TreatAsEmpty == {400, 404, 422}

\* error.response?.status || 500
ErrorStatus(o, st) == IF o = "error" THEN st ELSE 500

\* the catch block of the first server file's handler, lines 421-440
NearbyRentalsCatch(o, st, limit) ==
  IF ErrorStatus(o, st) \in TreatAsEmpty
  THEN [status |-> 200, ok |-> TRUE, limit |-> limit, count |-> 0, comps |-> <<>>,
        note |-> "No comps found", rentcastStatus |-> ErrorStatus(o, st)]
  ELSE [status |-> ErrorStatus(o, st), ok |-> FALSE,
        error |-> "Failed to fetch nearby rentals",
        details |-> IF o = "error" THEN "provider body" ELSE "message"]

\* the catch block of the second server file's handler, lines 881-888
NearbyRentals2Catch(o, st) ==
  [status |-> ErrorStatus(o, st), ok |-> FALSE,
   error |-> "Failed to fetch nearby rentals",
   details |-> IF o = "error" THEN "provider body" ELSE "message"]

\* o is how the call ended and st the status of an error answer
RentalCall(o, st) ==
  /\ Called(E_RentalComps, o)
  /\ providerStatus' = CASE o = "ok" -> 200 [] o = "error" -> st [] OTHER -> 0

\* GET /api/nearby-rentals of the first server file, lines 401-441.  The
\* radius and the field mapping of normalizeComp are not modelled: each raw
\* comp yields one comp.
NearbyRentals ==
  /\ route = R_NearbyRentals
  /\ pc = "start"
  /\ LET address == QueryText(query.address)
         limit == RentalLimit(query.limit)
     IN IF address = <<>>
        THEN /\ response' = [status |-> 400, ok |-> FALSE, error |-> "address is required"]
             /\ UNCHANGED <<calls, failed, providerStatus>>
        ELSE IF ~env.RENTCAST_API_KEY
        THEN /\ response' = [status |-> 500, ok |-> FALSE,
                             error |-> "RENTCAST_API_KEY not set"]
             /\ UNCHANGED <<calls, failed, providerStatus>>
        ELSE \E o \in Outcomes, st \in ErrorStatuses :
               /\ RentalCall(o, st)
               /\ response' =
                    IF o = "ok"
                    THEN [status |-> 200, ok |-> TRUE, limit |-> limit,
                          count |-> Len(world.rentalRows), comps |-> world.rentalRows,
                          note |-> "", rentcastStatus |-> 0]
                    ELSE NearbyRentalsCatch(o, st, limit)
  /\ pc' = "done"
  /\ UNCHANGED <<request, loc, warnings, args, result>>

\* GET /api/nearby-rentals of the second server file, lines 862-889
NearbyRentals2 ==
  /\ route = R_NearbyRentals2
  /\ pc = "start"
  /\ LET address == QueryText(query.address)
     IN IF address = <<>>
        THEN /\ response' = [status |-> 400, ok |-> FALSE, error |-> "address is required"]
             /\ UNCHANGED <<calls, failed, providerStatus>>
        ELSE \E o \in Outcomes, st \in ErrorStatuses :
               /\ RentalCall(o, st)
               /\ response' =
                    IF o = "ok"
                    THEN [status |-> 200, ok |-> TRUE, type |-> "nearby_rentals",
                          data |-> world.rentalRows]
                    ELSE NearbyRentals2Catch(o, st)
  /\ pc' = "done"
  /\ UNCHANGED <<request, loc, warnings, args, result>>

\* a direct call of computeSimpleAVM (lines 260-294)
CallAVM ==
  /\ pc = "call"
  /\ args.fn = "computeSimpleAVM"
  /\ result' = [fn |-> args.fn,
                out |-> computeSimpleAVM(args.subjectSqft, args.saleComps,
                                         args.rentEstimateMonthly, args.capRatePercent)]
  /\ pc' = "returned"
  /\ UNCHANGED <<request, loc, warnings, calls, failed, response, providerStatus, args>>

\* a destructuring default (lines 299-301): used when the argument is undefined
OrDefault(v, k) == IF v = Undef THEN Num(k) ELSE v

\* a direct call of computeInvestmentSummary (lines 296-375)
CallInvestment ==
  /\ pc = "call"
  /\ args.fn = "computeInvestmentSummary"
  /\ LET v == OrDefault(args.vacancyPercent, DefaultVacancyPercent)
         e == OrDefault(args.expensePercent, DefaultExpensePercent)
         dp == OrDefault(args.downPaymentPercent, DefaultDownPaymentPercent)
         summary == computeInvestmentSummary(args.purchasePrice, args.monthlyRent, v, e, dp)
     IN result' =
          [fn |-> args.fn,
           out |-> IF summary.ok
                   THEN summary @@ computeInvestmentDebt(args.purchasePrice,
                                     args.monthlyRent, v, e, dp,
                                     args.interestRatePercent, args.loanYears)
                   ELSE summary]
  /\ pc' = "returned"
  /\ UNCHANGED <<request, loc, warnings, calls, failed, response, providerStatus, args>>

Next ==
  \/ NearbyRentals
  \/ NearbyRentals2
  \/ Validate
  \/ Geocode
  \/ Census
  \/ Derive
  \/ RentCast
  \/ Realie
  \/ Subject
  \/ PremiumComps
  \/ FallbackComps
  \/ Assemble

Init == InitPanel \/ InitRentals

Spec == Init /\ [][Next]_vars

NextAVM == CallAVM \/ CallInvestment

SpecAVM == InitAVM /\ [][NextAVM]_vars

\* ------------------------------------------------------------------------
\* Properties
\* ------------------------------------------------------------------------
Range(xs) == {xs[i] : i \in 1..Len(xs)}
Count(xs, x) == Cardinality({i \in 1..Len(xs) : xs[i] = x})
IndexOf(xs, x) == CHOOSE i \in 1..Len(xs) : xs[i] = x

PanelRequest == route = R_Panel

\* the stages of the panel handler, each with its action
PanelStages == {"start", "geocode", "census", "derive", "rentcast", "realie",
                "subject", "premium", "fallback", "assemble"}
PanelDone == route = R_Panel /\ pc = "done"
PanelAnswered == PanelDone /\ response.status = 200

\* the validation rule, read off the request as it arrived
Q_FullAddress == QueryText(OrElse(query.fullAddress, query.address))
Q_State == QueryText(query.state)
Q_Line1 == QueryText(query.addressLine1)
ValidInput == Q_FullAddress # <<>> \/ (Q_State # <<>> /\ Q_Line1 # <<>>)

\* C1: a panel request whose input passes validation ends with a success
\* response (status 200, ok:true, the warnings list), whatever the outcome
\* (success, error status, timeout) of each upstream call; it never ends with
\* an error response, and until it responds it stands at a stage of the handler.
C1_ValidPanelSucceeds ==
  PanelRequest /\ ValidInput =>
    /\ response.status \in {0, 200}
    /\ pc = "done" => response.status = 200 /\ response.ok /\ response.warnings = warnings
    /\ pc # "done" => response.status = 0 /\ pc \in PanelStages

\* every upstream call of a request that reached all five stages failed, and
\* the response is a success
C1_Witness ==
  /\ PanelAnswered
  /\ {E_Census, E_Rentcast, E_Realie, E_Premium, E_Search} \subseteq failed

\* C2: a panel request with no fullAddress that lacks state or addressLine1
\* ends with status 400, and no upstream call is issued at any point of it.
C2_InvalidPanelRejected ==
  PanelRequest /\ ~ValidInput =>
    /\ calls = <<>>
    /\ pc \in {"start", "done"}
    /\ response.status \in {0, 400}
    /\ pc = "done" => response.status = 400 /\ ~response.ok

\* a rejected request that named a state and a county but no street line
C2_Witness ==
  /\ PanelDone /\ response.status = 400
  /\ Q_State # <<>> /\ QueryText(query.county) # <<>> /\ Q_Line1 = <<>>

\* the warnings of the handler that are about something other than the census
NonCensusWarnings ==
  {W_Geocode, W_DerivedAddressLine1, W_DerivedCounty, W_RentcastKey, W_RentcastNone,
   W_RentcastFailed, W_RentcastSkipped, W_RealieKey, W_RealieNone, W_RealieFailed,
   W_RealieSkipped, W_SoldComps}

Warned(w) == w \in Range(response.warnings)

\* the source whose call e failed has its warning in the response and a
\* null or empty sub-result; the sale-comp lookup fails when its fallback
\* call fails
FailureReported(e) ==
  CASE e = E_Geocoder -> Warned(W_Geocode) /\ ~response.geocoding.present
    [] e = E_Census -> /\ \E w \in Range(response.warnings) : w \notin NonCensusWarnings
                       /\ ~response.demographics.present
    [] e = E_Rentcast -> Warned(W_RentcastFailed) /\ response.rentcast.kind = "null"
    [] e = E_Realie -> Warned(W_RealieFailed) /\ ~response.realie.present
    [] e = E_Search -> Warned(W_SoldComps) /\ response.saleComps.comps = <<>>
    [] OTHER -> TRUE

\* C3: in a panel response, every upstream call that was attempted and failed
\* (error status, timeout) has a warning for its source in the warnings list,
\* and that source's sub-result is null or empty.
C3_EveryFailureWarned ==
  PanelAnswered => \A e \in failed : FailureReported(e)

\* what does hold: every failure but the census one is reported, and a failed
\* census call leaves null demographics
FailuresReportedButCensus ==
  PanelAnswered =>
    /\ \A e \in failed \ {E_Census} : FailureReported(e)
    /\ E_Census \in failed => ~response.demographics.present

\* C4: a validated panel request with neither provider key configured gets a
\* success response with one warning for each skipped source (primary lookup,
\* secondary lookup, sale comps), ARV ok:false, the AVM's insufficient-inputs
\* result (null estimate, confidence none) and an investment summary ok:false.
C4_NoCredentials ==
  PanelDone /\ ValidInput /\ ~env.RENTCAST_API_KEY /\ ~env.REALIE_API_KEY =>
    /\ response.status = 200 /\ response.ok
    /\ Count(response.warnings, W_RentcastKey) = 1
    /\ Count(response.warnings, W_RealieKey) = 1
    /\ Count(response.warnings, W_SoldComps) = 1
    /\ ~response.arv.ok /\ response.arv.arv = Null
    /\ response.avm.method = "Insufficient inputs"
    /\ response.avm.estimatedMarketValue = Null
    /\ response.avm.confidence = "none"
    /\ ~response.investment.ok

\* no keys, though the caller gave a purchase price and a cap rate
C4_Witness ==
  /\ PanelAnswered /\ ~env.RENTCAST_API_KEY /\ ~env.REALIE_API_KEY
  /\ toNumberLoose(query.purchasePrice) = Num(1500) /\ query.cap = Str(<<"5">>)

\* the price each source yields
CallerPrice == toNumberLoose(query.purchasePrice)
PrimaryPrice == toNumberLoose(pickFirst(loc.rentcastProp, PriceRentcastKeys))
SecondaryPrice == toNumberLoose(pickFirst(loc.realie, PriceRealieKeys))

\* C5 as claimed: the purchase price used is the primary provider's, else the
\* secondary provider's, else the caller's.
C5_ProviderPriceFirst ==
  PanelAnswered =>
    response.subject.purchasePriceUsed =
      IF PrimaryPrice # Null THEN PrimaryPrice
      ELSE IF SecondaryPrice # Null THEN SecondaryPrice
      ELSE CallerPrice

\* C5 as amended: the purchase price used is the caller-supplied price whenever
\* it parses to a number, else the primary provider's, else the secondary
\* provider's, else null.
C5_CallerPriceFirst ==
  PanelAnswered =>
    response.subject.purchasePriceUsed =
      IF CallerPrice # Null THEN CallerPrice
      ELSE IF PrimaryPrice # Null THEN PrimaryPrice
      ELSE SecondaryPrice

\* the caller and both providers name different prices
C5_Witness ==
  /\ PanelAnswered
  /\ CallerPrice # Null /\ PrimaryPrice # Null /\ SecondaryPrice # Null
  /\ CallerPrice # PrimaryPrice /\ PrimaryPrice # SecondaryPrice
  /\ response.subject.purchasePriceUsed = CallerPrice

\* the rent each provider's record yields
PrimaryRent == toNumberLoose(pickFirst(loc.rentcastProp, RentKeys))
SecondaryRent == toNumberLoose(pickFirst(loc.realie, RentKeys))

\* C6 as claimed: the rent estimate is the primary record's rent and, when that
\* record is absent or has no usable rent, the secondary record's; it is null
\* only when neither yields one.
C6_RentFromEitherProvider ==
  PanelAnswered =>
    response.subject.rentEstimateMonthly =
      IF PrimaryRent # Null THEN PrimaryRent ELSE SecondaryRent

\* C6 as amended: the rent estimate is the primary record's rent, and null
\* whenever that record is absent or has no usable rent, whatever the
\* secondary record holds.
C6_RentFromPrimaryOnly ==
  PanelAnswered => response.subject.rentEstimateMonthly = PrimaryRent

\* the secondary record holds a rent, the primary lookup gave none
C6_Witness ==
  /\ PanelAnswered
  /\ PrimaryRent = Null /\ SecondaryRent # Null
  /\ response.subject.rentEstimateMonthly = Null

RentalsDone == route \in {R_NearbyRentals, R_NearbyRentals2} /\ pc = "done"

\* what C7 asks of the response to a failed provider call
RentalFailureHandled ==
  IF providerStatus \in {400, 404, 422}
  THEN /\ response.status = 200 /\ response.ok
       /\ response.count = 0 /\ response.comps = <<>>
       /\ response.note = "No comps found"
  ELSE /\ ~response.ok
       /\ response.status = (IF providerStatus = 0 THEN 500 ELSE providerStatus)
       /\ "details" \in DOMAIN response

\* C7: the rental-comparables operation answers a provider status of 400, 404
\* or 422 with a successful empty result (count 0, no comps, a note), and any
\* other provider status or a transport error with an error response that
\* carries the status and details.
C7_RentalCompsEmptyOnNoData ==
  RentalsDone /\ E_RentalComps \in failed => RentalFailureHandled

\* what does hold: the handler of the first server file does so
RentalCompsFirstFile ==
  RentalsDone /\ route = R_NearbyRentals /\ E_RentalComps \in failed
    => RentalFailureHandled

\* the premium endpoint answered with at least one comp that has both price
\* and square footage
PremiumRowUsable(x) ==
  Truthy(toNumberLoose(pickFirst(x, SalePriceKeys)))
  /\ Truthy(toNumberLoose(pickFirst(x, SaleSqftKeys)))

PremiumServed ==
  /\ E_Premium \in Range(calls) /\ E_Premium \notin failed
  /\ \E i \in 1..Len(world.premiumRows) : PremiumRowUsable(world.premiumRows[i])

\* the sale-comp lookup has run with key, state and county present
LookupRan ==
  /\ PanelRequest /\ (pc = "assemble" \/ PanelAnswered)
  /\ env.REALIE_API_KEY /\ loc.state # <<>> /\ loc.county # <<>>

\* C8: in the sale-comp lookup with key, state and county present the premium
\* endpoint is called first; the fallback search is called only after the
\* premium call errored or returned no comp with both price and square footage,
\* and never when the premium call returned such a comp; the lookup reports
\* failure (ok:false, no comps) only when the fallback call itself errored.
C8_PremiumThenFallback ==
  PanelRequest =>
    /\ E_Search \in Range(calls) =>
         /\ E_Premium \in Range(calls)
         /\ IndexOf(calls, E_Premium) < IndexOf(calls, E_Search)
         /\ ~PremiumServed
    /\ LookupRan =>
         /\ E_Premium \in Range(calls)
         /\ PremiumServed =>
              /\ E_Search \notin Range(calls)
              /\ loc.saleCompsResp.ok
              /\ loc.saleCompsResp.source = "realie_premium_comparables"
         /\ ~loc.saleCompsResp.ok <=> E_Search \in failed
         /\ ~loc.saleCompsResp.ok => loc.saleCompsResp.comps = <<>>

\* the premium endpoint answered with records none of which is usable, and the
\* fallback call then failed
C8_Witness ==
  /\ PanelAnswered /\ LookupRan
  /\ E_Premium \notin failed /\ world.premiumRows # <<>>
  /\ E_Search \in failed
  /\ ~response.saleComps.ok

\* the fallback tier answered for a subject of known positive square footage
FallbackServed ==
  /\ PanelRequest /\ pc \in {"assemble", "done"}
  /\ E_Search \in Range(calls) /\ E_Search \notin failed
  /\ IsNum(loc.subjectSqft) /\ loc.subjectSqft.n > 0

\* the provider's records that have both price and square footage, in the
\* provider's order
UsableSearchComps ==
  LET all == [i \in 1..Len(world.searchRows) |-> normalizeSaleComp(world.searchRows[i])]
  IN SelectSeq(all, LAMBDA c : Truthy(c.price) /\ Truthy(c.sqft))

Distance(c) == Abs(c.sqft.n - loc.subjectSqft.n)

Max(a, b) == IF a > b THEN a ELSE b

\* out is a selection of pool, ranked by ascending distance with ties in pool
\* order, and nothing left out is nearer than anything kept
RankedSelection(out, pool) ==
  \E f \in [1..Len(out) -> 1..Len(pool)] :
    /\ \A i \in 1..Len(out) : out[i] = pool[f[i]]
    /\ \A i, j \in 1..Len(out) :
         i < j => /\ f[i] # f[j]
                  /\ Distance(out[i]) <= Distance(out[j])
                  /\ Distance(out[i]) = Distance(out[j]) => f[i] < f[j]
    /\ \A k \in (1..Len(pool)) \ {f[i] : i \in 1..Len(out)} :
         \A i \in 1..Len(out) : Distance(pool[k]) >= Distance(out[i])

\* C9: with a known positive subject square footage, the fallback tier's list
\* holds only comps with both price and square footage, has at most limit
\* entries (none for a limit below 1), is sorted by ascending absolute sqft
\* difference from the subject with ties in provider order, and leaves out no
\* comp nearer than one it keeps.
C9_FallbackRanked ==
  FallbackServed =>
    LET out == loc.saleCompsResp.comps
    IN /\ \A i \in 1..Len(out) : Truthy(out[i].price) /\ Truthy(out[i].sqft)
       /\ Len(out) <= Max(loc.compsLimit, 0)
       /\ RankedSelection(out, UsableSearchComps)

\* what does hold: the same with the bound on the length stated for a limit
\* that is not negative
FallbackRankedForLimit ==
  FallbackServed =>
    LET out == loc.saleCompsResp.comps
    IN /\ \A i \in 1..Len(out) : Truthy(out[i].price) /\ Truthy(out[i].sqft)
       /\ loc.compsLimit >= 0 => Len(out) <= loc.compsLimit
       /\ RankedSelection(out, UsableSearchComps)

\* ------------------------------------------------------------------------
\* computeSimpleAVM, called directly
\* ------------------------------------------------------------------------
AvmReturned == pc = "returned" /\ args.fn = "computeSimpleAVM"

\* the comps with price > 0 and sqft > 0, as pairs of integers
AvmUsable ==
  LET nums == [i \in 1..Len(args.saleComps) |->
                 <<JsNumber(args.saleComps[i].price), JsNumber(args.saleComps[i].sqft)>>]
  IN SelectSeq(nums, LAMBDA c : IsNum(c[1]) /\ c[1].n > 0 /\ IsNum(c[2]) /\ c[2].n > 0)

\* the sum of price/sqft over cs as the fraction SumTop(cs) / SqftProduct(cs)
RECURSIVE SqftProduct(_)
SqftProduct(cs) == IF cs = <<>> THEN 1 ELSE Head(cs)[2].n * SqftProduct(Tail(cs))

RECURSIVE SumTop(_)
SumTop(cs) ==
  IF cs = <<>> THEN 0
  ELSE Head(cs)[1].n * SqftProduct(Tail(cs)) + Head(cs)[2].n * SumTop(Tail(cs))

\* e = round(a / b), halves up, for b > 0
IsRounded(e, a, b) == b > 0 /\ 2 * e * b <= 2 * a + b /\ 2 * a + b < 2 * (e + 1) * b

AvmSqftKnown == IsNum(JsNumber(args.subjectSqft)) /\ JsNumber(args.subjectSqft).n > 0
AvmCompsBranch == AvmSqftKnown /\ Len(AvmUsable) > 0
AvmIncomeUsable ==
  /\ IsNum(JsNumber(args.rentEstimateMonthly)) /\ JsNumber(args.rentEstimateMonthly).n > 0
  /\ IsNum(JsNumber(args.capRatePercent)) /\ JsNumber(args.capRatePercent).n > 0

\* C10: computeSimpleAVM returns the comps-based estimate
\* round(mean(price/sqft) * subjectSqft), confidence medium for 5 or more comps
\* used and low otherwise, when subject sqft > 0 and some comp has price > 0 and
\* sqft > 0; else round(rent*12 / (capRate/100)) with confidence low when rent
\* and cap rate are > 0; else the insufficient result (null estimate,
\* confidence none).  The income branch is never taken when the comps branch is
\* usable.
C10_AvmMethod ==
  AvmReturned =>
    LET out == result.out
        n == Len(AvmUsable)
    IN IF AvmCompsBranch
       THEN /\ out.method = "Sale comps avg $/sqft x subject sqft"
            /\ out.compsUsed = n
            /\ out.confidence = (IF n >= 5 THEN "medium" ELSE "low")
            /\ IsNum(out.estimatedMarketValue)
            /\ IF args.saleComps = ExampleComps
               THEN out.estimatedMarketValue.n = 100000 /\ out.confidence = "low"
               ELSE IsRounded(out.estimatedMarketValue.n,
                              SumTop(AvmUsable) * JsNumber(args.subjectSqft).n,
                              SqftProduct(AvmUsable) * n)
       ELSE IF AvmIncomeUsable
       THEN /\ out.method = "Rent estimate annualized / cap rate"
            /\ out.confidence = "low"
            /\ IsNum(out.estimatedMarketValue)
            /\ IsRounded(out.estimatedMarketValue.n,
                         JsNumber(args.rentEstimateMonthly).n * 12 * 100,
                         JsNumber(args.capRatePercent).n)
       ELSE /\ out.method = "Insufficient inputs"
            /\ out.estimatedMarketValue = Null
            /\ out.confidence = "none"

\* five usable comps among those passed, with a usable rent and cap rate beside
\* them: the comps branch answers, with confidence medium
C10_Witness ==
  /\ AvmReturned /\ AvmCompsBranch /\ AvmIncomeUsable
  /\ Len(AvmUsable) = 5 /\ Len(args.saleComps) > 5 - 1
  /\ result.out.confidence = "medium"
  /\ result.out.method = "Sale comps avg $/sqft x subject sqft"

\* ------------------------------------------------------------------------
\* ARV in the panel response
\* ------------------------------------------------------------------------
ArvSubjectKnown == IsNum(response.subject.sqft) /\ response.subject.sqft.n > 0

ArvUsableComp(c) == IsNum(c.price) /\ c.price.n > 0 /\ IsNum(c.sqft) /\ c.sqft.n > 0

ArvHasUsableComp ==
  \E i \in 1..Len(response.saleComps.comps) : ArvUsableComp(response.saleComps.comps[i])

ArvIncomeAvailable ==
  /\ IsNum(response.subject.rentEstimateMonthly)
  /\ response.subject.rentEstimateMonthly.n > 0
  /\ IsNum(loc.capRatePercent) /\ loc.capRatePercent.n > 0

\* C11: the ARV of a panel response is ok:true exactly when the subject's
\* square footage is > 0 and at least one returned sale comp has price > 0 and
\* sqft > 0; otherwise it is ok:false with a null value and a reason, whatever
\* rent estimate and cap rate the request has (no income approach for ARV).
C11_ArvFromCompsOnly ==
  PanelAnswered =>
    /\ response.arv.ok <=> (ArvSubjectKnown /\ ArvHasUsableComp)
    /\ response.arv.ok => IsNum(response.arv.arv) /\ response.arv.compsUsed >= 1
    /\ ~response.arv.ok => /\ response.arv.arv = Null
                           /\ response.arv.reason # ""
                           /\ response.arv.compsUsed = 0

\* a response with a known subject sqft, no usable comp, and a rent estimate
\* and cap rate that give the AVM its income estimate, while ARV is ok:false
C11_Witness ==
  /\ PanelAnswered
  /\ ArvSubjectKnown /\ ~ArvHasUsableComp /\ ArvIncomeAvailable
  /\ response.avm.method = "Rent estimate annualized / cap rate"
  /\ IsNum(response.avm.estimatedMarketValue)
  /\ ~response.arv.ok

\* ------------------------------------------------------------------------
\* computeInvestmentSummary, called directly
\* ------------------------------------------------------------------------
InvReturned == pc = "returned" /\ args.fn = "computeInvestmentSummary"

InvPrice == JsNumber(args.purchasePrice)
InvRent == JsNumber(args.monthlyRent)
InvInputsValid == IsNum(InvPrice) /\ InvPrice.n > 0 /\ IsNum(InvRent) /\ InvRent.n > 0

InvPercent(v, default) == IF v = Undef THEN default ELSE v.n
InvVacancy == InvPercent(args.vacancyPercent, 5)
InvExpense == InvPercent(args.expensePercent, 35)
InvDownPayment == InvPercent(args.downPaymentPercent, 20)

\* 100 times the loan amount and the cash invested
InvLoan100 == InvPrice.n * (100 - InvDownPayment)
InvCash100 == InvPrice.n * InvDownPayment
\* the number of payments, and the monthly rate as the fraction InvRateTop / InvRateBottom
InvTerm == args.loanYears.n * 12
InvRateTop == Rat(args.interestRatePercent.n, 1200).num
InvRateBottom == Rat(args.interestRatePercent.n, 1200).den

\* out is round(L * r / (1 - (1 + r)^-n)) for the loan L, monthly rate r and
\* term n of the call: with r = t/b, the payment is
\* L * t * (t+b)^n / (b * ((t+b)^n - b^n))
InvAmortizing(out) ==
  LET L == Rat(InvLoan100, 100)
      grown == Pow(InvRateTop + InvRateBottom, InvTerm)
  IN IsRounded(out, L.num * InvRateTop * grown,
               L.den * InvRateBottom * (grown - Pow(InvRateBottom, InvTerm)))

InvExampleCall ==
  /\ args.purchasePrice = Num(200000) /\ args.monthlyRent = Num(2000)
  /\ InvVacancy = 5 /\ InvExpense = 35 /\ InvDownPayment = 20

\* C12: computeInvestmentSummary returns ok:false whenever the purchase price
\* or the monthly rent is missing or not > 0; otherwise grossAnnual is R*12,
\* effective gross is grossAnnual*(1-vacancy%), NOI is
\* effectiveGross*(1-expense%), the loan amount is P*(1-downPayment%) (each
\* reported rounded to a whole number), the monthly debt service is the
\* amortizing payment when the monthly rate and the term are > 0, loanAmount/n
\* when the rate is zero, and 0 when the loan amount or the term is not
\* positive, and cashOnCash is null when the cash invested is not > 0.  For
\* P=200000, R=2000, vacancy 5, expense 35, down payment 20 the outputs are
\* 24000, 22800, 14820 and 160000.
C12_InvestmentSummary ==
  InvReturned =>
    LET out == result.out
        gross == InvRent.n * 12
    IN /\ out.ok <=> InvInputsValid
       /\ out.ok =>
            /\ out.grossAnnual = Num(gross)
            /\ IsRounded(out.effectiveGrossAnnual.n, gross * (100 - InvVacancy), 100)
            /\ IsRounded(out.noiAnnual.n,
                         gross * (100 - InvVacancy) * (100 - InvExpense), 10000)
            /\ IsRounded(out.loanAmount.n, InvLoan100, 100)
            /\ (InvLoan100 > 0 /\ InvRateTop > 0 /\ InvTerm > 0)
                 => InvAmortizing(out.monthlyPaymentPI.n)
            /\ (InvLoan100 > 0 /\ InvRateTop = 0 /\ InvTerm > 0)
                 => IsRounded(out.monthlyPaymentPI.n, InvLoan100, 100 * InvTerm)
            /\ (InvLoan100 <= 0 \/ InvTerm <= 0) => out.monthlyPaymentPI = Num(0)
            /\ InvCash100 <= 0 => out.cashOnCashPercent = Null
            /\ InvExampleCall =>
                 /\ out.grossAnnual = Num(24000)
                 /\ out.effectiveGrossAnnual = Num(22800)
                 /\ out.noiAnnual = Num(14820)
                 /\ out.loanAmount = Num(160000)

\* a call with a positive loan, rate and term, answered with an amortizing
\* payment above the straight-line one
C12_Witness ==
  /\ InvReturned /\ result.out.ok
  /\ InvLoan100 > 0 /\ InvRateTop > 0 /\ InvTerm > 0
  /\ result.out.monthlyPaymentPI.n * InvTerm * 100 > InvLoan100
  /\ IsNum(result.out.cashOnCashPercent)

\* ------------------------------------------------------------------------
\* Upstream calls of one panel request
\* ------------------------------------------------------------------------
PanelEndpoints == {E_Geocoder, E_Census, E_Rentcast, E_Realie, E_Premium, E_Search}

\* the number of calls made to endpoint e so far
TimesCalled(e) == Cardinality({i \in 1..Len(calls) : calls[i] = e})

\* C13: within one panel request every upstream endpoint (geocoder, census,
\* primary lookup, secondary lookup, premium comps, fallback search) is called
\* at most once whatever the outcomes, and an endpoint whose call failed has
\* been called exactly once: nothing is retried.
C13_NoRetry ==
  PanelRequest =>
    /\ Range(calls) \subseteq PanelEndpoints
    /\ \A e \in PanelEndpoints : TimesCalled(e) <= 1
    /\ \A e \in failed : TimesCalled(e) = 1

\* an answered request that called all six endpoints, five of them failing
C13_Witness ==
  /\ PanelAnswered
  /\ Range(calls) = PanelEndpoints
  /\ failed = {E_Census, E_Rentcast, E_Realie, E_Premium, E_Search}

\* ------------------------------------------------------------------------
\* Derived inputs of a panel request
\* ------------------------------------------------------------------------
Line1Derived == Q_Line1 = <<>> /\ response.inputs.addressLine1 # <<>>
CountyDerived == QueryText(query.county) = <<>> /\ response.inputs.county # <<>>
CityDerived == QueryText(query.city) = <<>> /\ response.inputs.city # <<>>

\* C14: in a panel response every input the handler derived has its warning:
\* addressLine1 taken from fullAddress, county taken from the geocoding
\* components, and city taken from the geocoding components.  None of the
\* handler's warnings (NonCensusWarnings) is about the city.
C14_DerivationsWarned ==
  PanelAnswered =>
    /\ Line1Derived => Warned(W_DerivedAddressLine1)
    /\ CountyDerived => Warned(W_DerivedCounty)
    /\ CityDerived => \E w \in Range(response.warnings) : w \notin NonCensusWarnings

\* what does hold: the derivations of addressLine1 and county are warned, and
\* only they
DerivationsWarnedButCity ==
  PanelAnswered =>
    /\ Line1Derived <=> Warned(W_DerivedAddressLine1)
    /\ CountyDerived <=> Warned(W_DerivedCounty)

\* ------------------------------------------------------------------------
\* The number of sale comps in a panel response
\* ------------------------------------------------------------------------
\* min(requested saleCompLimit or 10, 20)
EffectiveCompsLimit ==
  LET requested == toNumberLoose(query.saleCompLimit)
  IN Min(IF IsNum(requested) THEN requested.n ELSE 10, 20)

\* C15: the sale comps of a panel response are never more than the effective
\* limit min(requested saleCompLimit or 10, 20) (none for a limit below 1),
\* whichever tier produced them and however many records the provider sent.
C15_CompsWithinLimit ==
  PanelAnswered =>
    /\ response.saleComps.count = Len(response.saleComps.comps)
    /\ Len(response.saleComps.comps) <= Max(EffectiveCompsLimit, 0)

SearchServed == E_Search \in Range(calls) /\ E_Search \notin failed

\* what does hold: the premium tier returns every usable row the provider
\* sent, and the fallback tier keeps to a limit that is not negative
CompsWithinLimitInFallback ==
  PanelAnswered =>
    /\ response.saleComps.count = Len(response.saleComps.comps)
    /\ PremiumServed =>
         response.saleComps.comps = NormalizedUsable(world.premiumRows)
    /\ (SearchServed /\ EffectiveCompsLimit >= 0) =>
         Len(response.saleComps.comps) <= EffectiveCompsLimit
    /\ (~PremiumServed /\ ~SearchServed) => response.saleComps.comps = <<>>

\* a response of the premium tier with more comps than the limit asked for
PremiumOverLimit ==
  /\ PanelAnswered /\ PremiumServed
  /\ EffectiveCompsLimit >= 1
  /\ Len(response.saleComps.comps) > EffectiveCompsLimit

====
